---- MODULE Spec2Model ----
(***************************************************************************)
(* Farm-Easy (src/app.py): a Flask application with a SQLite user store,   *)
(* flask-login sessions, a static crop table and a pickled classifier.     *)
(*                                                                         *)
(* Strings the code inspects character by character (usernames, passwords, *)
(* password hashes) are sequences of one-character strings.  Strings the   *)
(* code only passes around (flash messages, template names, labels) are    *)
(* TLA+ strings.  Python's None is the string "None".                      *)
(***************************************************************************)
EXTENDS Integers, Sequences, FiniteSets, TLC

VARIABLES users, session, model, encoder, reg, last, nreq

vars == <<users, session, model, encoder, reg, last, nreq>>

\* Python's None where a string is expected
None == "None"

\* the session holds no "_user_id"
Anonymous == 0

(***************************************************************************)
(* Bounds of the model.                                                    *)
(***************************************************************************)
\* requests served in one run
MaxRequests == 5

Clients == {1, 2}

\* request.form["username"]: absent/empty, blank, plain, padded
Usernames == {<<>>, <<" ">>, <<"a">>, <<" ", "a">>, <<"b">>}

Passw0rd == <<"P", "a", "s", "s", "w", "0", "r", "d", "!">>

\* request.form["password"]: absent/empty, equal to a username, a strong one
Passwords == {<<>>, <<"a">>, Passw0rd}

Salts == {"s1", "s2"}

(***************************************************************************)
(* str.strip()                                                             *)
(***************************************************************************)
RECURSIVE LStrip(_)
LStrip(s) == IF s # <<>> /\ Head(s) = " " THEN LStrip(Tail(s)) ELSE s

RECURSIVE RStrip(_)
RStrip(s) ==
  IF s # <<>> /\ s[Len(s)] = " " THEN RStrip(SubSeq(s, 1, Len(s) - 1)) ELSE s

Strip(s) == RStrip(LStrip(s))

(***************************************************************************)
(* werkzeug.security: the stored string is method$salt$digest.  The digest *)
(* is a function of the salt and the password; it is modelled by a keyed   *)
(* rearrangement of the password, which is never the password itself.      *)
(***************************************************************************)
RECURSIVE Reverse(_)
Reverse(s) == IF s = <<>> THEN <<>> ELSE Append(Reverse(Tail(s)), Head(s))

Digest(salt, password) == <<salt>> \o Reverse(password) \o <<salt>>

HashWithSalt(salt, password) == <<"scrypt", "$", salt, "$">> \o Digest(salt, password)

\* the password stored as submitted
generate_password_hash_plaintext(password) == {password}

generate_password_hash(password) == {HashWithSalt(salt, password) : salt \in Salts}

check_password_hash(pwhash, password) ==
  /\ Len(pwhash) >= 4
  /\ pwhash[1] = "scrypt"
  /\ pwhash[2] = "$"
  /\ pwhash[4] = "$"
  /\ pwhash = HashWithSalt(pwhash[3], password)

(***************************************************************************)
(* The user store: the rows of table user in insertion order.              *)
(***************************************************************************)
User(id, username, password) ==
  [id |-> id, username |-> username, password |-> password]

\* the result of a query that finds no row
NoUser == User(0, <<>>, <<>>)

RowsNamed(username) == {i \in 1..Len(users) : users[i].username = username}

\* a query that never finds the row
FindUser_nothing(username) == NoUser

\* User.query.filter_by(username=username).first()
FindUser(username) ==
  IF RowsNamed(username) = {} THEN NoUser
  ELSE users[CHOOSE i \in RowsNamed(username) : \A j \in RowsNamed(username) : i <= j]

\* a column declared without unique=True
UniqueViolation_off(username) == FALSE

\* the UNIQUE constraint of column username, checked by the store at commit
UniqueViolation(username) == RowsNamed(username) # {}

\* load_user: db.session.get(User, int(user_id)), None when there is none
load_user(user_id) ==
  IF user_id \in {users[i].id : i \in 1..Len(users)}
  THEN users[CHOOSE i \in 1..Len(users) : users[i].id = user_id]
  ELSE NoUser

\* flask-login's current_user.is_authenticated for the client's session
Authenticated(c) == session[c] # Anonymous /\ load_user(session[c]) # NoUser

(***************************************************************************)
(* URLs as urlparse splits them: scheme, netloc, path ("" when absent).    *)
(***************************************************************************)
Url(scheme, netloc, path) == [scheme |-> scheme, netloc |-> netloc, path |-> path]

\* request.host_url
HostUrl == Url("http", "localhost", "/")

\* url_for(endpoint)
url_for(endpoint) ==
  Url("", "", IF endpoint = "home" THEN "/" ELSE "/" \o endpoint)

\* no URL
NoUrl == Url("", "", "")

\* a "next" parameter that is absent or empty (both are falsy)
NoNext == NoUrl

EvilUrl == Url("http", "evil.example", "/x")

\* the values of the "next" parameter
NextTargets ==
  { Url("", "", "/predict"),           \* /predict
    EvilUrl,                           \* http://evil.example/x
    Url("", "evil.example", "/x"),     \* //evil.example/x
    Url("ftp", "localhost", "/x"),     \* ftp://localhost/x
    Url("https", "localhost", "/crops") }

UsesRelative == {"", "ftp", "http", "https"}

\* urllib.parse.urljoin(base, url) for a url with an absolute path
urljoin(base, url) ==
  LET scheme == IF url.scheme = "" THEN base.scheme ELSE url.scheme
  IN  IF url = NoNext THEN base
      ELSE IF scheme # base.scheme \/ scheme \notin UsesRelative THEN url
      ELSE IF url.netloc # "" THEN Url(scheme, url.netloc, url.path)
      ELSE Url(scheme, base.netloc, IF url.path = "" THEN base.path ELSE url.path)

\* the check of the scheme alone
is_safe_url_scheme_only(target) ==
  urljoin(HostUrl, target).scheme \in {"http", "https"}

is_safe_url(target) ==
  LET host_url == HostUrl
      redirect_url == urljoin(HostUrl, target)
  IN  redirect_url.scheme \in {"http", "https"} /\ host_url.netloc = redirect_url.netloc

(***************************************************************************)
(* The prediction adapter.                                                 *)
(***************************************************************************)
Fields == <<"N", "P", "K", "temperature", "humidity", "ph", "rainfall">>

FieldNames == {Fields[i] : i \in 1..Len(Fields)}

\* a form field holds nothing (None) or a string; these parse as finite
Finite == {"90"}

\* float(v): the exception raised, or the float
float(v) ==
  IF v = None THEN "TypeError"
  ELSE IF v \in Finite \cup {"nan", "inf"} THEN v
  ELSE "ValueError"

Raises == {"TypeError", "ValueError", "IndexError", "raise"}

AllValid == [f \in FieldNames |-> "90"]

\* the forms posted to /predict: the valid one, with one field missing or not
\* a number, or with N or rainfall not finite
PredictForms ==
  {[AllValid EXCEPT ![f] = v] : f \in FieldNames, v \in {None, "abc", "90"}}
    \cup {[AllValid EXCEPT ![f] = v] : f \in {"N", "rainfall"}, v \in {"nan", "inf"}}

\* encoder.classes_ of the fitted LabelEncoder
Classes == <<"apple", "rice">>

\* an element of a numpy array: a string or an integer
StrElem(v) == [kind |-> "str", v |-> v, n |-> 0]

IntElem(n) == [kind |-> "int", v |-> "", n |-> n]

\* what leaves a call that raised
Raised == <<StrElem("raise")>>

\* model.predict(features) on a one-row batch: it raises, or returns one
\* prediction, a label or an encoded class (7 is a class the encoder lacks)
ModelOutcomes == {Raised, <<StrElem("rice")>>, <<IntElem(1)>>, <<IntElem(7)>>}

\* encoder.inverse_transform(pred): LabelEncoder raises on anything but the
\* indices of classes_; any other unpickled object raises
inverse_transform(pred) ==
  IF /\ encoder = "LabelEncoder"
     /\ \A i \in 1..Len(pred) :
          pred[i].kind = "int" /\ pred[i].n \in 0..(Len(Classes) - 1)
  THEN [i \in 1..Len(pred) |-> StrElem(Classes[pred[i].n + 1])]
  ELSE Raised

\* str(x)
str(x) == IF x.kind = "int" THEN ToString(x.n) ELSE x.v

\* the label taken from the raw output, the encoder never asked
safe_inverse_transform_no_encoder(pred) ==
  IF Len(pred) > 0 THEN str(pred[1]) ELSE "[]"

safe_inverse_transform(pred) ==
  IF encoder # None /\ inverse_transform(pred) # Raised /\ Len(inverse_transform(pred)) > 0
  THEN inverse_transform(pred)[1].v
  ELSE IF Len(pred) > 0 THEN str(pred[1]) ELSE "[]"

(***************************************************************************)
(* Requests and responses.  last is the last request served, with its      *)
(* response; nreq counts the requests served.                              *)
(***************************************************************************)
NoFields == [f \in FieldNames |-> None]

Form(username, password, next, argsnext, fields) ==
  [username |-> username, password |-> password, next |-> next,
   argsnext |-> argsnext, fields |-> fields]

NoForm == Form(<<>>, <<>>, NoNext, NoNext, NoFields)

\* invoked: model.predict was called; raw: what it returned
Exchange(c, route, method, form, status, template, location, flash, prediction, raw) ==
  [client |-> c, route |-> route, method |-> method, form |-> form,
   status |-> status, template |-> template, location |-> location, flash |-> flash,
   prediction |-> prediction, invoked |-> raw # <<>>, raw |-> raw]

\* redirect(location) after flash(message)
Redirect(c, route, method, form, location, flash) ==
  Exchange(c, route, method, form, "redirect", None, location, flash, None, <<>>)

\* render_template(template, prediction=...)
Render(c, route, method, form, template, flash, prediction, raw) ==
  Exchange(c, route, method, form, "render", template, NoUrl, flash, prediction, raw)

\* an exception leaves the view: the framework answers 500
Unhandled(c, route, method, form, raw) ==
  Exchange(c, route, method, form, "exception", None, NoUrl, None, None, raw)

Respond(exchange) ==
  /\ last' = exchange
  /\ nreq' = nreq + 1

\* the requests being handled
InFlight == {c \in Clients : reg[c].pc # "idle"}

\* client c may send a request
Ready(c) == reg[c].pc = "idle" /\ nreq + Cardinality(InFlight) < MaxRequests

\* @login_required for an anonymous client: flask-login redirects to login_view
Unauthorized(c, route, method, form) ==
  /\ ~Authenticated(c)
  /\ Respond(Redirect(c, route, method, form, url_for("login"),
                      "Please log in to access this page."))
  /\ UNCHANGED <<users, session, model, encoder, reg>>

Idle == [pc |-> "idle", username |-> <<>>, password |-> <<>>, hashed |-> <<>>,
         form |-> NoForm]

Init ==
  /\ users = <<>>
  /\ session = [c \in Clients |-> Anonymous]
  /\ model \in {None, "Model"}
  /\ encoder \in {None, "LabelEncoder", "Other"}
  /\ reg = [c \in Clients |-> Idle]
  /\ last = Exchange(0, "none", "none", NoForm, "none", None, NoUrl, None, None, <<>>)
  /\ nreq = 0

(***************************************************************************)
(* Routes.                                                                 *)
(***************************************************************************)
home(c) ==
  /\ Ready(c)
  /\ Respond(Render(c, "home", "GET", NoForm, "home.html", None, None, <<>>))
  /\ UNCHANGED <<users, session, model, encoder, reg>>

register_get(c) ==
  /\ Ready(c)
  /\ Respond(Render(c, "register", "GET", NoForm, "register.html", None, None, <<>>))
  /\ UNCHANGED <<users, session, model, encoder, reg>>

\* POST /register up to the existence query (lines 114-121)
register_query(c, form) ==
  LET username == Strip(form.username)
      password == form.password
  IN  /\ Ready(c)
      /\ IF username = <<>> \/ password = <<>>
         THEN /\ Respond(Redirect(c, "register", "POST", form, url_for("register"),
                                  "Provide username and password"))
              /\ UNCHANGED reg
         ELSE IF FindUser(username) # NoUser
         THEN /\ Respond(Redirect(c, "register", "POST", form, url_for("login"),
                                  "User exists, login instead."))
              /\ UNCHANGED reg
         ELSE /\ reg' = [reg EXCEPT ![c] = [pc |-> "add", username |-> username,
                            password |-> password, hashed |-> <<>>, form |-> form]]
              /\ UNCHANGED <<last, nreq>>
      /\ UNCHANGED <<users, session, model, encoder>>

\* hashing the password and db.session.add (lines 122-124)
register_add(c) ==
  /\ reg[c].pc = "add"
  /\ \E hashed \in generate_password_hash(reg[c].password) :
       reg' = [reg EXCEPT ![c].pc = "commit", ![c].hashed = hashed]
  /\ UNCHANGED <<users, session, model, encoder, last, nreq>>

\* db.session.commit() and the answer (lines 125-127); the INSERT fails with
\* IntegrityError when the username is taken, and nothing catches it
register_commit(c) ==
  /\ reg[c].pc = "commit"
  /\ IF UniqueViolation(reg[c].username)
     THEN /\ Respond(Unhandled(c, "register", "POST", reg[c].form, <<>>))
          /\ UNCHANGED users
     ELSE /\ users' = Append(users, User(Len(users) + 1, reg[c].username, reg[c].hashed))
          /\ Respond(Redirect(c, "register", "POST", reg[c].form, url_for("login"),
                              "Registered. Please login."))
  /\ reg' = [reg EXCEPT ![c] = Idle]
  /\ UNCHANGED <<session, model, encoder>>

login_get(c) ==
  /\ Ready(c)
  /\ Respond(Render(c, "login", "GET", NoForm, "login.html", None, None, <<>>))
  /\ UNCHANGED <<users, session, model, encoder, reg>>

login_post(c, form) ==
  LET username == Strip(form.username)
      password == form.password
      next_from_form == form.next
      next_from_query == form.argsnext
      user == FindUser(username)
      next_page == IF next_from_form # NoNext THEN next_from_form ELSE next_from_query
  IN  /\ Ready(c)
      /\ IF username = <<>> \/ password = <<>>
         THEN /\ Respond(Redirect(c, "login", "POST", form, url_for("login"),
                                  "Please enter username and password"))
              /\ UNCHANGED session
         ELSE IF user = NoUser \/ ~check_password_hash(user.password, password)
         THEN /\ Respond(Redirect(c, "login", "POST", form, url_for("login"),
                                  "Invalid username or password"))
              /\ UNCHANGED session
         ELSE /\ session' = [session EXCEPT ![c] = user.id]
              /\ Respond(Redirect(c, "login", "POST", form,
                                  IF next_page # NoNext /\ is_safe_url(next_page)
                                  THEN next_page ELSE url_for("crops"),
                                  "Logged in successfully."))
      /\ UNCHANGED <<users, model, encoder, reg>>

\* logout without logout_user()
logout_keeps_session(c) ==
  /\ Ready(c)
  /\ \/ Unauthorized(c, "logout", "GET", NoForm)
     \/ /\ Authenticated(c)
        /\ Respond(Redirect(c, "logout", "GET", NoForm, url_for("home"), "Logged out."))
        /\ UNCHANGED <<users, session, model, encoder, reg>>

logout(c) ==
  /\ Ready(c)
  /\ \/ Unauthorized(c, "logout", "GET", NoForm)
     \/ /\ Authenticated(c)
        /\ session' = [session EXCEPT ![c] = Anonymous]
        /\ Respond(Redirect(c, "logout", "GET", NoForm, url_for("home"), "Logged out."))
        /\ UNCHANGED <<users, model, encoder, reg>>

\* the crop table handed to the template (CROPS with crop.jpg for a missing
\* image) is not part of the state
crops(c) ==
  /\ Ready(c)
  /\ \/ Unauthorized(c, "crops", "GET", NoForm)
     \/ /\ Authenticated(c)
        /\ Respond(Render(c, "crops", "GET", NoForm, "crops.html", None, None, <<>>))
        /\ UNCHANGED <<users, session, model, encoder, reg>>

predict_get(c) ==
  /\ Ready(c)
  /\ \/ Unauthorized(c, "predict", "GET", NoForm)
     \/ /\ Authenticated(c)
        /\ Respond(Render(c, "predict", "GET", NoForm, "predict.html", None, None, <<>>))
        /\ UNCHANGED <<users, session, model, encoder, reg>>

\* the try block of lines 177-187: some float() raised
ParseFails(fields) == \E f \in FieldNames : float(fields[f]) \in Raises

\* predict without the test of model against None: None.predict raises
predict_post_unchecked(c, fields) ==
  LET form == Form(<<>>, <<>>, NoNext, NoNext, fields)
  IN  /\ Ready(c)
      /\ \/ Unauthorized(c, "predict", "POST", form)
         \/ /\ Authenticated(c)
            /\ IF ParseFails(fields)
               THEN Respond(Redirect(c, "predict", "POST", form, url_for("predict"),
                                     "Please enter valid numeric values."))
               ELSE IF model = None
               THEN Respond(Unhandled(c, "predict", "POST", form, <<>>))
               ELSE \E raw_pred \in ModelOutcomes :
                      IF raw_pred = Raised
                      THEN Respond(Unhandled(c, "predict", "POST", form, raw_pred))
                      ELSE Respond(Render(c, "predict", "POST", form, "predict.html",
                                          None, safe_inverse_transform(raw_pred), raw_pred))
            /\ UNCHANGED <<users, session, model, encoder, reg>>

predict_post(c, fields) ==
  LET form == Form(<<>>, <<>>, NoNext, NoNext, fields)
  IN  /\ Ready(c)
      /\ \/ Unauthorized(c, "predict", "POST", form)
         \/ /\ Authenticated(c)
            /\ IF ParseFails(fields)
               THEN Respond(Redirect(c, "predict", "POST", form, url_for("predict"),
                                     "Please enter valid numeric values."))
               ELSE IF model = None
               THEN Respond(Render(c, "predict", "POST", form, "predict.html",
                                   "Model not loaded.", None, <<>>))
               ELSE \E raw_pred \in ModelOutcomes :
                      IF raw_pred = Raised
                      THEN Respond(Unhandled(c, "predict", "POST", form, raw_pred))
                      ELSE Respond(Render(c, "predict", "POST", form, "predict.html",
                                          None, safe_inverse_transform(raw_pred), raw_pred))
            /\ UNCHANGED <<users, session, model, encoder, reg>>

(***************************************************************************)
(* The requests clients send.                                              *)
(***************************************************************************)
Credentials(username, password) == Form(username, password, NoNext, NoNext, NoFields)

RegisterForms == {Credentials(u, p) : u \in Usernames, p \in Passwords}

\* no other client's request is being handled
Quiet(c) == InFlight \subseteq {c}

(***************************************************************************)
(* SpecSeq: registration and login, one request at a time.                 *)
(***************************************************************************)
InitLoaded == Init /\ model = "Model" /\ encoder = "LabelEncoder"

SeqLoginForms == {Credentials(u, p) : u \in {<<"a">>, <<"b">>}, p \in Passwords}

NextSeq ==
  \E c \in Clients :
    \/ Quiet(c) /\ home(c)
    \/ Quiet(c) /\ register_get(c)
    \/ Quiet(c) /\ \E form \in RegisterForms : register_query(c, form)
    \/ Quiet(c) /\ register_add(c)
    \/ Quiet(c) /\ register_commit(c)
    \/ Quiet(c) /\ login_get(c)
    \/ Quiet(c) /\ \E form \in SeqLoginForms : login_post(c, form)
    \/ Quiet(c) /\ logout(c)
    \/ Quiet(c) /\ crops(c)

SpecSeq == InitLoaded /\ [][NextSeq]_vars

(***************************************************************************)
(* SpecLogin: one account, logins with a "next" parameter, protected       *)
(* routes.                                                                 *)
(***************************************************************************)
Account == Credentials(<<"a">>, Passw0rd)

\* (form field, query parameter) of "next"
NextPairs ==
  {<<NoNext, NoNext>>} \cup {<<t, NoNext>> : t \in NextTargets}
    \cup {<<NoNext, Url("", "", "/predict")>>, <<NoNext, EvilUrl>>,
          <<EvilUrl, Url("", "", "/predict")>>}

LoginForms ==
  {Form(<<"a">>, p, n[1], n[2], NoFields) : p \in {<<"a">>, Passw0rd}, n \in NextPairs}
    \cup {Credentials(<<>>, Passw0rd)}

NextLogin ==
  \E c \in Clients :
    \/ register_query(c, Account)
    \/ register_add(c)
    \/ register_commit(c)
    \/ \E form \in LoginForms : login_post(c, form)
    \/ logout(c)
    \/ crops(c)
    \/ predict_get(c)

SpecLogin == InitLoaded /\ [][NextLogin]_vars

(***************************************************************************)
(* SpecRace: registrations handled concurrently.                           *)
(***************************************************************************)
RaceForms == {Credentials(u, Passw0rd) : u \in {<<"a">>, <<" ", "a">>, <<"b">>}}

NextRace ==
  \E c \in Clients :
    \/ \E form \in RaceForms : register_query(c, form)
    \/ register_add(c)
    \/ register_commit(c)
    \/ login_post(c, Account)
    \/ crops(c)

SpecRace == InitLoaded /\ [][NextRace]_vars

(***************************************************************************)
(* SpecPredict: every outcome of loading the model and the encoder, one    *)
(* account, predictions.                                                   *)
(***************************************************************************)
NextPredict ==
  \E c \in Clients :
    \/ register_query(c, Account)
    \/ register_add(c)
    \/ register_commit(c)
    \/ login_post(c, Account)
    \/ logout(c)
    \/ predict_get(c)
    \/ \E fields \in PredictForms : predict_post(c, fields)

SpecPredict == Init /\ [][NextPredict]_vars

(***************************************************************************)
(* Properties.                                                             *)
(***************************************************************************)
\* this step answers a request
Served == nreq' = nreq + 1

RegisterPosted(x) == x.route = "register" /\ x.method = "POST"

Registered(x) == RegisterPosted(x) /\ x.flash = "Registered. Please login."

DuplicateUsername(x) ==
  /\ RegisterPosted(x)
  /\ x.status = "redirect"
  /\ x.flash = "User exists, login instead."

NamedIn(store, username) == {i \in 1..Len(store) : store[i].username = username}

\* C1 as stated: for every username u, a POST /register with u and a non-empty
\* password on a store without u creates exactly one row for u and reports
\* success, and the POST /register with u that follows it reports
\* DuplicateUsername and leaves the store unchanged.
C1_RegisterTwice ==
  [][Served /\ RegisterPosted(last') /\ last'.form.password # <<>> =>
       LET u == last'.form.username
       IN  /\ RowsNamed(u) = {} =>
                /\ Registered(last')
                /\ Cardinality(NamedIn(users', u)) = 1
                /\ Len(users') = Len(users) + 1
           /\ RegisterPosted(last) /\ last.form.username = u /\ last.form.password # <<>> =>
                DuplicateUsername(last') /\ users' = users]_vars

\* C1 amended: the same for every username that is not blank, the row and the
\* store lookup being those of the username without its surrounding
\* whitespace.
C1_RegisterTwiceStripped ==
  [][Served /\ RegisterPosted(last') /\ last'.form.password # <<>>
       /\ Strip(last'.form.username) # <<>> =>
       LET u == Strip(last'.form.username)
       IN  /\ RowsNamed(u) = {} =>
                /\ Registered(last')
                /\ Cardinality(NamedIn(users', u)) = 1
                /\ Len(users') = Len(users) + 1
           /\ RowsNamed(u) # {} => DuplicateUsername(last') /\ users' = users
           /\ Registered(last) /\ Strip(last.form.username) = u =>
                DuplicateUsername(last') /\ users' = users]_vars

\* the second of two successive registrations of one username was answered
C1_Witness ==
  /\ DuplicateUsername(last)
  /\ Cardinality(RowsNamed(Strip(last.form.username))) = 1
  /\ Len(users) = 1
  /\ nreq = 2

Lower == {"a", "s", "w", "r", "d"}

Upper == {"P"}

Digits == {"0"}

Symbols == {"!"}

Has(password, class) == \E i \in 1..Len(password) : password[i] \in class

\* the password policy of the specification
PolicyOK(username, password) ==
  /\ password # username
  /\ Len(password) >= 8
  /\ Has(password, Lower) /\ Has(password, Upper)
  /\ Has(password, Digits) /\ Has(password, Symbols)

\* C5: POST /register creates a row only for a password that meets the policy
\* (not the username, 8 characters or more, a lowercase letter, an uppercase
\* letter, a digit and a symbol).
C5_PasswordPolicy ==
  Registered(last) => PolicyOK(Strip(last.form.username), last.form.password)

LoggedIn(x) ==
  x.route = "login" /\ x.method = "POST" /\ x.flash = "Logged in successfully."

SaltedHashOf(pwhash, password) ==
  \E salt \in Salts : pwhash = HashWithSalt(salt, password)

\* C6: every stored password is the salted hash of a submitted password and
\* never that password; the row a registration creates holds the hash of the
\* password it submitted; and a login establishes the session of user u only
\* if the submitted password is the one u's stored hash was made from.
C6_HashedPasswords ==
  /\ \A i \in 1..Len(users) :
       \E p \in Passwords : SaltedHashOf(users[i].password, p) /\ users[i].password # p
  /\ Registered(last) =>
       /\ users # <<>>
       /\ users[Len(users)].username = Strip(last.form.username)
       /\ SaltedHashOf(users[Len(users)].password, last.form.password)
       /\ users[Len(users)].password # last.form.password
  /\ LoggedIn(last) =>
       /\ session[last.client] # Anonymous
       /\ load_user(session[last.client]).username = Strip(last.form.username)
       /\ SaltedHashOf(load_user(session[last.client]).password, last.form.password)
  /\ \A c \in Clients : session[c] # Anonymous => load_user(session[c]) # NoUser

\* a login succeeded while another user with another password is registered
C6_Witness ==
  /\ LoggedIn(last)
  /\ Len(users) = 2
  /\ \E i \in 1..2 : ~SaltedHashOf(users[i].password, last.form.password)

Protected == {"crops", "predict", "logout"}

\* the answer of @login_required to a client that is not logged in
Rejected(x) ==
  /\ x.status = "redirect"
  /\ x.location = Url("", "", "/login")
  /\ x.flash = "Please log in to access this page."
  /\ x.template = None /\ x.prediction = None /\ ~x.invoked

LoggedOut(x) == x.route = "logout" /\ ~Rejected(x)

HasSession(c) == session[c] # Anonymous

\* C2: a client has a session exactly from a successful login of its own to
\* its next logout; a request to /crops, /predict or /logout is served if the
\* client has a session, and otherwise is answered by the one redirect to
\* /login, which renders nothing and changes neither session nor user store.
C2_ProtectedRoutes ==
  [][/\ \A c \in Clients :
          /\ ~HasSession(c) /\ HasSession(c)' =>
               Served /\ last'.client = c /\ LoggedIn(last')
          /\ HasSession(c) /\ ~HasSession(c)' =>
               Served /\ last'.client = c /\ LoggedOut(last')
     /\ Served /\ LoggedIn(last') => session'[last'.client] # Anonymous
     /\ Served /\ LoggedOut(last') => session'[last'.client] = Anonymous
     /\ Served /\ last'.route \in Protected =>
          IF HasSession(last'.client)
          THEN ~Rejected(last')
          ELSE /\ Rejected(last')
               /\ session' = session
               /\ users' = users]_vars

\* a protected request was served to a client that is logged in, while
\* another client has no session
C2_Witness ==
  /\ last.route = "crops"
  /\ last.status = "render"
  /\ HasSession(last.client)
  /\ \E c \in Clients : ~HasSession(c)

\* C3: the store never holds two rows with one username.
C3_UniqueUsernames ==
  \A i, j \in 1..Len(users) : users[i].username = users[j].username => i = j

\* two registrations of one username ran concurrently: one created the row,
\* the commit of the other was refused by the store
C3_Witness ==
  /\ last.route = "register"
  /\ last.status = "exception"
  /\ NamedIn(users, Strip(last.form.username)) # {}

\* the "next" value a login uses: the form field, else the query parameter
NextOf(form) == IF form.next # NoNext THEN form.next ELSE form.argsnext

SameOrigin(url) ==
  LET resolved == urljoin(HostUrl, url)
  IN  resolved.scheme \in {"http", "https"} /\ resolved.netloc = HostUrl.netloc

LoginPosted(x) == x.route = "login" /\ x.method = "POST"

\* C4: a successful login redirects to its "next" value (form field first,
\* else query parameter) when that value resolves to http or https on the
\* current host, and to /crops otherwise; no login redirects to another host;
\* a failed login redirects to /login.
C4_SafeRedirect ==
  LoginPosted(last) =>
    /\ last.status = "redirect"
    /\ urljoin(HostUrl, last.location).netloc = HostUrl.netloc
    /\ IF LoggedIn(last)
       THEN last.location =
              IF NextOf(last.form) # NoNext /\ SameOrigin(NextOf(last.form))
              THEN NextOf(last.form) ELSE Url("", "", "/crops")
       ELSE last.location = Url("", "", "/login")

\* a login with next=http://evil.example/x succeeded and went to /crops
C4_Witness ==
  /\ LoggedIn(last)
  /\ NextOf(last.form) = EvilUrl
  /\ last.location = Url("", "", "/crops")

\* a login with next=/predict in the query succeeded and followed it
C4_WitnessFollowed ==
  /\ LoggedIn(last)
  /\ last.form.next = NoNext
  /\ last.location = Url("", "", "/predict")

PredictPosted(x) == x.route = "predict" /\ x.method = "POST"

\* C7: the classifier is invoked only if every one of the 7 fields holds a
\* finite number.
C7_FiniteFeatures ==
  PredictPosted(last) /\ last.invoked =>
    \A f \in FieldNames : last.form.fields[f] \in Finite

\* C8: no request ends in an unhandled exception.
C8_NoUnhandledException == last.status # "exception"

\* C9: no request writes the model or encoder handle; with no model loaded, an
\* authenticated POST /predict of 7 numeric fields renders the form with
\* "Model not loaded." and no prediction, and invokes nothing.
C9_ModelUnavailable ==
  [][/\ model' = model
     /\ encoder' = encoder
     /\ Served /\ PredictPosted(last') /\ model = None /\ HasSession(last'.client)
          /\ (\A f \in FieldNames : last'.form.fields[f] \in Finite) =>
          /\ last'.status = "render"
          /\ last'.template = "predict.html"
          /\ last'.flash = "Model not loaded."
          /\ last'.prediction = None
          /\ ~last'.invoked]_vars

\* the model failed to load and a prediction was asked for
C9_Witness ==
  /\ model = None
  /\ PredictPosted(last)
  /\ last.flash = "Model not loaded."

\* the label C10 names for a one-row output
Label(raw) ==
  IF raw[1].kind = "str" THEN raw[1].v
  ELSE IF encoder = "LabelEncoder" /\ raw[1].n \in 0..(Len(Classes) - 1)
       THEN Classes[raw[1].n + 1]
       ELSE ToString(raw[1].n)

\* C10: when the classifier returns, the request renders the label: the raw
\* output if it is a string, the encoder's class for an encoded output the
\* loaded encoder maps, and the string form of the output's first element
\* when the encoder is absent or its mapping raises.
C10_LabelResolution ==
  PredictPosted(last) /\ last.invoked /\ last.raw # Raised =>
    /\ last.status = "render"
    /\ last.prediction = Label(last.raw)

\* an encoded output was mapped by the encoder
C10_Witness ==
  /\ PredictPosted(last)
  /\ last.raw = <<IntElem(1)>>
  /\ encoder = "LabelEncoder"
  /\ last.prediction = "rice"

====
